---------------------------- MODULE Spec2Model ----------------------------
(***************************************************************************)
(* The configuration registry of google.cloud.aiplatform.initializer:      *)
(* class _Config (global_config), its single mutator init, its lazily      *)
(* resolved property reads and the operations built on them.               *)
(*                                                                         *)
(* Python values are modelled as follows.  A str is the tuple of its       *)
(* one-character strings, so that lower(), "/".join and f-strings are      *)
(* computed character by character.  None and opaque objects (credentials) *)
(* are one-element tuples holding a tag that is no single character, so    *)
(* they differ from every str and are truthy or falsy as in Python.        *)
(* Exception messages are never taken apart and stay TLA+ strings.         *)
(*                                                                         *)
(* Four specifications share the variables.  Spec: one caller of           *)
(* global_config.  SpecConc: threads on global_config, init running one    *)
(* statement at a time.  SpecPool: the module-level global_pool.           *)
(* SpecMeta: metadata.metadata_service and metadata.context._Context on    *)
(* an initialised registry.                                                *)
(***************************************************************************)
EXTENDS Naturals, Sequences, FiniteSets

VARIABLES
    _project,                   \* _Config._project
    _experiment,                \* _Config._experiment
    _location,                  \* _Config._location
    _staging_bucket,            \* _Config._staging_bucket
    _credentials,               \* _Config._credentials
    _encryption_spec_key_name,  \* _Config._encryption_spec_key_name
    last,                       \* the latest operation: its arguments and outcome
    pc,                         \* each thread's position in its code
    calls,                      \* the arguments of each thread's init call
    obs,                        \* what the reading thread has read so far
    cpu_count,                  \* what os.cpu_count() reports
    global_pool,                \* the module's ThreadPoolExecutor
    metadata_service,           \* the fields of the module's _MetadataService
    remote                      \* the resources the Metadata API holds

vars == <<_project, _experiment, _location, _staging_bucket, _credentials,
          _encryption_spec_key_name, last, pc, calls, obs, cpu_count,
          global_pool, metadata_service, remote>>

\* The threads that run concurrently with each other.
threads == <<pc, calls, obs>>

\* The worker pool and what sizes it.
pool == <<cpu_count, global_pool>>

\* The metadata service and the API it talks to.
metadata == <<metadata_service, remote>>

\* The state that the operations of one caller on global_config leave alone.
outside_config == <<threads, pool, metadata>>

\* The state that a statement of a thread on global_config leaves alone.
outside_threads == <<last, pool, metadata>>

stored == <<_project, _experiment, _location, _staging_bucket, _credentials,
            _encryption_spec_key_name>>

\* The stored fields by the name of the init argument that sets each.
Stored ==
    [project |-> _project, location |-> _location, experiment |-> _experiment,
     staging_bucket |-> _staging_bucket, credentials |-> _credentials,
     encryption_spec_key_name |-> _encryption_spec_key_name]

Fields == {"project", "location", "experiment", "staging_bucket", "credentials",
           "encryption_spec_key_name"}

-----------------------------------------------------------------------------
(* Python values *)

None == <<"None">>

\* bool(x) of a str, None or an object.
Truthy(x) == x # None /\ x # <<>>

\* a or b
Or(a, b) == IF Truthy(a) THEN a ELSE b

UpperChars == <<"A","B","C","D","E","F","G","H","I","J","K","L","M",
                "N","O","P","Q","R","S","T","U","V","W","X","Y","Z">>
LowerChars == <<"a","b","c","d","e","f","g","h","i","j","k","l","m",
                "n","o","p","q","r","s","t","u","v","w","x","y","z">>

\* The lower-case letter of every upper-case letter.
UpperToLower ==
    [c \in {UpperChars[i] : i \in 1..26} |->
        LowerChars[CHOOSE i \in 1..26 : UpperChars[i] = c]]

LowerChar(c) == IF c \in DOMAIN UpperToLower THEN UpperToLower[c] ELSE c

\* str.lower()
Lower(s) == [i \in 1..Len(s) |-> LowerChar(s[i])]

\* sep.join(parts)
RECURSIVE Join(_, _)
Join(sep, parts) ==
    IF Len(parts) = 0 THEN <<>>
    ELSE IF Len(parts) = 1 THEN parts[1]
    ELSE parts[1] \o sep \o Join(sep, Tail(parts))

-----------------------------------------------------------------------------
(* Strings and objects the operations are called with *)

us_central1  == <<"u","s","-","c","e","n","t","r","a","l","1">>
asia_east1   == <<"a","s","i","a","-","e","a","s","t","1">>
US_Central1  == <<"U","S","-","C","e","n","t","r","a","l","1">>
not_a_region == <<"n","o","t","-","a","-","r","e","g","i","o","n">>

p1 == <<"p","1">>
env_project == <<"e","n","v">>
env_project2 == <<"e","n","v","2">>
exp1 == <<"e","x","p">>
bucket1 == <<"g","s",":","/","/","b">>
key1 == <<"k","e","y">>
CredA == <<"Credentials#A">>
CredB == <<"Credentials#B">>
CredC == <<"Credentials#C">>

\* constants.DEFAULT_REGION
DEFAULT_REGION == us_central1

\* constants.API_BASE_PATH
API_BASE_PATH == <<"a","i","p","l","a","t","f","o","r","m",".",
                   "g","o","o","g","l","e","a","p","i","s",".","c","o","m">>

\* constants.SUPPORTED_REGIONS
SUPPORTED_REGIONS == {us_central1, asia_east1}

\* utils.validate_region(region): TRUE when it returns, FALSE when it raises
\* ValueError.
validate_region(region) == Lower(region) \in SUPPORTED_REGIONS

validate_region_msg == "Unsupported region for AI Platform"

\* The message of both errors of the project read.
project_not_found_exception_str ==
    "Unable to find your project. Please provide a project ID by:\n- Passing a constructor argument\n- Using aiplatform.init()\n- Setting a GCP environment variable"

-----------------------------------------------------------------------------
(* google.auth.default(): it raises a GoogleAuthError, or returns           *)
(* (credentials, project_id) where project_id may be None.  It is asked    *)
(* anew at every invocation, and answers as the environment then is.       *)

provider_msg == "Could not automatically determine credentials."

ProviderAnswers ==
    { [kind |-> "raise", msg |-> provider_msg, creds |-> None, project |-> None],
      [kind |-> "ok", msg |-> "", creds |-> CredA, project |-> None],
      [kind |-> "ok", msg |-> "", creds |-> CredA, project |-> env_project],
      [kind |-> "ok", msg |-> "", creds |-> CredB, project |-> env_project2] }

\* The provider was not asked.
NoAnswer == [kind |-> "none", msg |-> "", creds |-> None, project |-> None]

-----------------------------------------------------------------------------
(* Outcomes of operations *)

\* A normal return of value v after n invocations of the provider.  filters
\* counts the LoggingWarningFilter objects the operation added to the logger
\* "google.auth._default" and did not remove; instantiated counts the clients
\* it constructed; rpcs lists the calls it made to the Metadata API.
Returns(v, n) ==
    [kind |-> "return", value |-> v, exc |-> "", msg |-> "", invoked |-> n,
     filters |-> 0, instantiated |-> 0, rpcs |-> <<>>]

\* An exception of class exc with message msg after n invocations.
Raises(exc, msg, n) ==
    [kind |-> "raise", value |-> None, exc |-> exc, msg |-> msg, invoked |-> n,
     filters |-> 0, instantiated |-> 0, rpcs |-> <<>>]

NoArgs == <<>>

\* What the caller has seen of its latest operation: the operation, its
\* arguments, its outcome, the answer the provider gave it if it was asked,
\* and, for a read that asked the provider right after the same read, what
\* that earlier read returned or raised.
Did(op, args, outcome, answer) ==
    [op |-> op, args |-> args, kind |-> outcome.kind, value |-> outcome.value,
     exc |-> outcome.exc, msg |-> outcome.msg, invoked |-> outcome.invoked,
     filters |-> outcome.filters, instantiated |-> outcome.instantiated,
     rpcs |-> outcome.rpcs,
     answer |-> IF outcome.invoked = 0 THEN NoAnswer ELSE answer,
     previous |-> IF outcome.invoked > 0 /\ op \in {"project", "credentials"} /\ last.op = op
                  THEN <<last.kind, last.value>> ELSE None]

-----------------------------------------------------------------------------
(* _Config.__init__ *)

\* Two threads that each call global_config.init once, and one thread that
\* reads global_config.project and then global_config.location.
InitThreads == {"A", "B"}
Reader == "R"

\* init(): every keyword argument at its default.
NoCall ==
    [project |-> None, location |-> None, experiment |-> None,
     staging_bucket |-> None, credentials |-> None,
     encryption_spec_key_name |-> None]

\* No thread has been started.
Unstarted == [t \in InitThreads \cup {Reader} |-> "unstarted"]
NothingRead == [project |-> None, location |-> None]

\* os.cpu_count(): None when the count is undetermined, else an int.
Unknown == [known |-> FALSE, n |-> 0]
Cores(n) == [known |-> TRUE, n |-> n]

\* os.cpu_count() or 0
cpu_count_or_0(c) == IF c.known /\ c.n # 0 THEN c.n ELSE 0

min(a, b) == IF a <= b THEN a ELSE b
max(a, b) == IF a >= b THEN a ELSE b

\* The pool size with four workers for each core.
max_workers_four_per_core(c) == min(32, max(4, cpu_count_or_0(c) * 4))

\* max_workers=min(32, max(4, (os.cpu_count() or 0) * 5))
max_workers(c) == min(32, max(4, cpu_count_or_0(c) * 5))

\* Before "global_pool = ..." has run, and the executor it binds.
NoPool == [created |-> FALSE, max_workers |-> 0]
ThreadPoolExecutor(n) == [created |-> TRUE, max_workers |-> n]

\* _MetadataService.__init__
NewService == [_experiment |-> None, _run |-> None, _metrics |-> None]

\* A Metadata API that holds no resource.
NoResources ==
    [store |-> FALSE, contexts |-> {}, executions |-> {}, artifacts |-> {}]

\* global_config = _Config()
Fresh ==
    /\ _project = None
    /\ _experiment = None
    /\ _location = None
    /\ _staging_bucket = None
    /\ _credentials = None
    /\ _encryption_spec_key_name = None
    /\ last = [op |-> "__init__", args |-> NoArgs, kind |-> "return",
               value |-> None, exc |-> "", msg |-> "", invoked |-> 0,
               filters |-> 0, instantiated |-> 0, rpcs |-> <<>>,
               answer |-> NoAnswer, previous |-> None]

\* The module has been imported on a machine of undetermined core count:
\* global_config and global_pool exist, no thread runs.
Init ==
    /\ pc = Unstarted
    /\ calls = [t \in InitThreads |-> NoCall]
    /\ obs = NothingRead
    /\ cpu_count = Unknown
    /\ global_pool = ThreadPoolExecutor(max_workers(Unknown))
    /\ metadata_service = NewService
    /\ remote = NoResources
    /\ Fresh

-----------------------------------------------------------------------------
(* _Config.init *)

\* init with "if project is not None:" for "if project:": an empty project clears.
init_is_not_None(project, location, experiment, staging_bucket, credentials, encryption_spec_key_name) ==
    LET args == [project |-> project, location |-> location,
                 experiment |-> experiment, staging_bucket |-> staging_bucket,
                 credentials |-> credentials,
                 encryption_spec_key_name |-> encryption_spec_key_name]
        \* validate_region(location) raised: nothing after it runs
        failed == Truthy(location) /\ ~validate_region(location)
    IN  /\ _project' = IF project # None THEN project ELSE _project
        /\ _location' = IF Truthy(location) /\ ~failed THEN location ELSE _location
        /\ _experiment' = IF ~failed /\ Truthy(experiment)
                          THEN experiment ELSE _experiment
        /\ _staging_bucket' = IF ~failed /\ Truthy(staging_bucket)
                              THEN staging_bucket ELSE _staging_bucket
        /\ _credentials' = IF ~failed /\ Truthy(credentials)
                           THEN credentials ELSE _credentials
        /\ _encryption_spec_key_name' =
               IF ~failed /\ Truthy(encryption_spec_key_name)
               THEN encryption_spec_key_name ELSE _encryption_spec_key_name
        /\ last' = Did("init", args,
                       IF failed THEN Raises("ValueError", validate_region_msg, 0)
                       ELSE Returns(None, 0),
                       NoAnswer)
        /\ UNCHANGED outside_config

\* init storing the location before it validates it.
init_stores_first(project, location, experiment, staging_bucket, credentials, encryption_spec_key_name) ==
    LET args == [project |-> project, location |-> location,
                 experiment |-> experiment, staging_bucket |-> staging_bucket,
                 credentials |-> credentials,
                 encryption_spec_key_name |-> encryption_spec_key_name]
        \* validate_region(location) raised: nothing after it runs
        failed == Truthy(location) /\ ~validate_region(location)
    IN  /\ _project' = IF Truthy(project) THEN project ELSE _project
        /\ _location' = IF Truthy(location) THEN location ELSE _location
        /\ _experiment' = IF ~failed /\ Truthy(experiment)
                          THEN experiment ELSE _experiment
        /\ _staging_bucket' = IF ~failed /\ Truthy(staging_bucket)
                              THEN staging_bucket ELSE _staging_bucket
        /\ _credentials' = IF ~failed /\ Truthy(credentials)
                           THEN credentials ELSE _credentials
        /\ _encryption_spec_key_name' =
               IF ~failed /\ Truthy(encryption_spec_key_name)
               THEN encryption_spec_key_name ELSE _encryption_spec_key_name
        /\ last' = Did("init", args,
                       IF failed THEN Raises("ValueError", validate_region_msg, 0)
                       ELSE Returns(None, 0),
                       NoAnswer)
        /\ UNCHANGED outside_config

\* init validating the location before it assigns any field.
init_atomic(project, location, experiment, staging_bucket, credentials, encryption_spec_key_name) ==
    LET args == [project |-> project, location |-> location,
                 experiment |-> experiment, staging_bucket |-> staging_bucket,
                 credentials |-> credentials,
                 encryption_spec_key_name |-> encryption_spec_key_name]
        \* validate_region(location) raised: nothing after it runs
        failed == Truthy(location) /\ ~validate_region(location)
    IN  /\ _project' = IF ~failed /\ Truthy(project) THEN project ELSE _project
        /\ _location' = IF Truthy(location) /\ ~failed THEN location ELSE _location
        /\ _experiment' = IF ~failed /\ Truthy(experiment)
                          THEN experiment ELSE _experiment
        /\ _staging_bucket' = IF ~failed /\ Truthy(staging_bucket)
                              THEN staging_bucket ELSE _staging_bucket
        /\ _credentials' = IF ~failed /\ Truthy(credentials)
                           THEN credentials ELSE _credentials
        /\ _encryption_spec_key_name' =
               IF ~failed /\ Truthy(encryption_spec_key_name)
               THEN encryption_spec_key_name ELSE _encryption_spec_key_name
        /\ last' = Did("init", args,
                       IF failed THEN Raises("ValueError", validate_region_msg, 0)
                       ELSE Returns(None, 0),
                       NoAnswer)
        /\ UNCHANGED outside_config

init(project, location, experiment, staging_bucket, credentials, encryption_spec_key_name) ==
    LET args == [project |-> project, location |-> location,
                 experiment |-> experiment, staging_bucket |-> staging_bucket,
                 credentials |-> credentials,
                 encryption_spec_key_name |-> encryption_spec_key_name]
        \* validate_region(location) raised: nothing after it runs
        failed == Truthy(location) /\ ~validate_region(location)
    IN  /\ _project' = IF Truthy(project) THEN project ELSE _project
        /\ _location' = IF Truthy(location) /\ ~failed THEN location ELSE _location
        /\ _experiment' = IF ~failed /\ Truthy(experiment)
                          THEN experiment ELSE _experiment
        /\ _staging_bucket' = IF ~failed /\ Truthy(staging_bucket)
                              THEN staging_bucket ELSE _staging_bucket
        /\ _credentials' = IF ~failed /\ Truthy(credentials)
                           THEN credentials ELSE _credentials
        /\ _encryption_spec_key_name' =
               IF ~failed /\ Truthy(encryption_spec_key_name)
               THEN encryption_spec_key_name ELSE _encryption_spec_key_name
        /\ last' = Did("init", args,
                       IF failed THEN Raises("ValueError", validate_region_msg, 0)
                       ELSE Returns(None, 0),
                       NoAnswer)
        /\ UNCHANGED outside_config

ProjectArgs == {None, <<>>, p1}
LocationArgs == {None, asia_east1, US_Central1, not_a_region}
ExperimentArgs == {None, exp1}
BucketArgs == {None, bucket1}
CredentialsArgs == {None, CredC}
KeyArgs == {None, key1}

Call_init ==
    \E project \in ProjectArgs, location \in LocationArgs,
       experiment \in ExperimentArgs, staging_bucket \in BucketArgs,
       credentials \in CredentialsArgs, encryption_spec_key_name \in KeyArgs :
        init(project, location, experiment, staging_bucket, credentials,
             encryption_spec_key_name)

-----------------------------------------------------------------------------
(* The property reads.  answer is what google.auth.default() answers if the *)
(* read invokes it.                                                        *)

\* The project read without its "if not project_id" check.
self_project_unchecked(answer) ==
    IF Truthy(_project) THEN Returns(_project, 0)
    ELSE IF answer.kind = "raise"
         THEN Raises("GoogleAuthError", project_not_found_exception_str, 1)
    ELSE Returns(answer.project, 1)

\* The project read re-raising the provider's error with the provider's message.
self_project_reraises(answer) ==
    IF Truthy(_project) THEN Returns(_project, 0)
    ELSE IF answer.kind = "raise"
         THEN Raises("GoogleAuthError", answer.msg, 1)
    ELSE IF ~Truthy(answer.project)
         THEN Raises("ValueError", project_not_found_exception_str, 1)
    ELSE Returns(answer.project, 1)

\* The project read memoized: a resolved project is returned again by the
\* read that follows, without asking the provider.
self_project_memoized(answer) ==
    IF Truthy(_project) THEN Returns(_project, 0)
    ELSE IF last.op = "project" /\ last.kind = "return" THEN Returns(last.value, 0)
    ELSE IF answer.kind = "raise"
         THEN Raises("GoogleAuthError", project_not_found_exception_str, 1)
    ELSE IF ~Truthy(answer.project)
         THEN Raises("ValueError", project_not_found_exception_str, 1)
    ELSE Returns(answer.project, 1)

\* _Config.project
self_project(answer) ==
    IF Truthy(_project) THEN Returns(_project, 0)
    ELSE IF answer.kind = "raise"
         THEN Raises("GoogleAuthError", project_not_found_exception_str, 1)
    ELSE IF ~Truthy(answer.project)
         THEN Raises("ValueError", project_not_found_exception_str, 1)
    ELSE Returns(answer.project, 1)

\* The location read without its fallback.
self_location_stored_only == _location

\* _Config.location
self_location == Or(_location, DEFAULT_REGION)

\* _Config.experiment
self_experiment == _experiment

\* _Config.staging_bucket
self_staging_bucket == _staging_bucket

\* _Config.credentials: addFilter, google.auth.default(), removeFilter.  When
\* the provider raises, removeFilter is not reached.
self_credentials(answer) ==
    IF Truthy(_credentials) THEN Returns(_credentials, 0)
    ELSE IF answer.kind = "raise"
         THEN [Raises("GoogleAuthError", answer.msg, 1) EXCEPT !.filters = 1]
    ELSE Returns(answer.creds, 1)

\* _Config.encryption_spec_key_name
self_encryption_spec_key_name == _encryption_spec_key_name

\* A read that caches a lazily resolved project in _project.
Reads_caching(op, args, outcome, answer) ==
    /\ last' = Did(op, args, outcome, answer)
    /\ UNCHANGED outside_config
    /\ _project' = IF op = "project" /\ outcome.kind = "return"
                   THEN outcome.value ELSE _project
    /\ UNCHANGED <<_experiment, _location, _staging_bucket, _credentials,
                   _encryption_spec_key_name>>

\* An operation that assigns no field of the registry.
Reads(op, args, outcome, answer) ==
    /\ last' = Did(op, args, outcome, answer)
    /\ UNCHANGED outside_config
    /\ UNCHANGED stored

Read_project ==
    \E answer \in ProviderAnswers :
        Reads("project", NoArgs, self_project(answer), answer)

Read_location == Reads("location", NoArgs, Returns(self_location, 0), NoAnswer)

Read_experiment == Reads("experiment", NoArgs, Returns(self_experiment, 0), NoAnswer)

Read_staging_bucket ==
    Reads("staging_bucket", NoArgs, Returns(self_staging_bucket, 0), NoAnswer)

Read_credentials ==
    \E answer \in ProviderAnswers :
        Reads("credentials", NoArgs, self_credentials(answer), answer)

Read_encryption_spec_key_name ==
    Reads("encryption_spec_key_name", NoArgs,
          Returns(self_encryption_spec_key_name, 0), NoAnswer)

-----------------------------------------------------------------------------
(* _Config.get_encryption_spec *)

V1 == "v1"
V1BETA1 == "v1beta1"

\* The EncryptionSpec of module mod (gca_encryption_spec_compat or
\* gca_encryption_spec_v1beta1) for a key name.
EncryptionSpec(mod, kms_key_name) ==
    [type |-> "EncryptionSpec", module |-> mod, kms_key_name |-> kms_key_name]

\* get_encryption_spec preferring the stored key name to the one passed.
get_encryption_spec_stored_first(encryption_spec_key_name, select_version) ==
    LET kms_key_name == Or(self_encryption_spec_key_name, encryption_spec_key_name)
        gca_encryption_spec ==
            IF select_version = V1BETA1 THEN "encryption_spec_v1beta1"
            ELSE "encryption_spec_compat"
    IN  IF Truthy(kms_key_name)
        THEN EncryptionSpec(gca_encryption_spec, kms_key_name)
        ELSE None

get_encryption_spec(encryption_spec_key_name, select_version) ==
    LET kms_key_name == Or(encryption_spec_key_name, self_encryption_spec_key_name)
        gca_encryption_spec ==
            IF select_version = V1BETA1 THEN "encryption_spec_v1beta1"
            ELSE "encryption_spec_compat"
    IN  IF Truthy(kms_key_name)
        THEN EncryptionSpec(gca_encryption_spec, kms_key_name)
        ELSE None

key2 == <<"k","2">>

Call_get_encryption_spec ==
    \E encryption_spec_key_name \in {None, <<>>, key2},
       select_version \in {V1, V1BETA1} :
        Reads("get_encryption_spec",
              [encryption_spec_key_name |-> encryption_spec_key_name,
               select_version |-> select_version],
              Returns(get_encryption_spec(encryption_spec_key_name, select_version), 0),
              NoAnswer)

-----------------------------------------------------------------------------
(* _Config.get_client_options *)

no_location_msg == "No location found. Provide or initialize SDK with a location."

\* client_options.ClientOptions(api_endpoint=...)
ClientOptions(api_endpoint) == [type |-> "ClientOptions", api_endpoint |-> api_endpoint]

\* get_client_options without region.lower().
get_client_options_no_lower(location_override) ==
    IF ~Truthy(Or(self_location, location_override))
    THEN Raises("ValueError", no_location_msg, 0)
    ELSE LET region == Or(location_override, self_location)
         IN  IF ~validate_region(region)
             THEN Raises("ValueError", validate_region_msg, 0)
             ELSE Returns(ClientOptions(region \o <<"-">> \o API_BASE_PATH), 0)

get_client_options(location_override) ==
    IF ~Truthy(Or(self_location, location_override))
    THEN Raises("ValueError", no_location_msg, 0)
    ELSE LET region == Lower(Or(location_override, self_location))
         IN  IF ~validate_region(region)
             THEN Raises("ValueError", validate_region_msg, 0)
             ELSE Returns(ClientOptions(region \o <<"-">> \o API_BASE_PATH), 0)

OverrideArgs == {None, <<>>, asia_east1, US_Central1, not_a_region}

Call_get_client_options ==
    \E location_override \in OverrideArgs :
        Reads("get_client_options", [location_override |-> location_override],
              get_client_options(location_override), NoAnswer)

-----------------------------------------------------------------------------
(* _Config.common_location_path *)

projects_str == <<"p","r","o","j","e","c","t","s">>
locations_str == <<"l","o","c","a","t","i","o","n","s">>
l1 == <<"l","1">>

\* common_location_path without its validation of the location.
common_location_path_unvalidated(project, location, answer) ==
    LET p == IF Truthy(project) THEN Returns(project, 0)
             ELSE self_project(answer)
    IN  IF p.kind = "raise" THEN p
        ELSE Returns(Join(<<"/">>, <<projects_str, p.value, locations_str,
                                     Or(location, self_location)>>),
                     p.invoked)

common_location_path(project, location, answer) ==
    IF Truthy(location) /\ ~validate_region(location)
    THEN Raises("ValueError", validate_region_msg, 0)
    ELSE LET p == IF Truthy(project) THEN Returns(project, 0)
                  ELSE self_project(answer)
         IN  IF p.kind = "raise" THEN p
             ELSE Returns(Join(<<"/">>, <<projects_str, p.value, locations_str,
                                          Or(location, self_location)>>),
                          p.invoked)

Call_common_location_path ==
    \E project \in {None, p1}, location \in {None, asia_east1, l1},
       answer \in ProviderAnswers :
        Reads("common_location_path", [project |-> project, location |-> location],
              common_location_path(project, location, answer), answer)

-----------------------------------------------------------------------------
(* _Config.create_client *)

\* gapic_v1.client_info.ClientInfo for the installed google-cloud-aiplatform.
client_info ==
    [type |-> "ClientInfo", gapic_version |-> "gapic_version",
     user_agent |-> "model-builder/gapic_version"]

\* create_client keeping the client it built: a call right after a call that
\* returned is handed that client again.
create_client_cached(client_class, credentials, location_override, prediction_client, answer) ==
    LET c == IF Truthy(credentials) THEN Returns(credentials, 0)
             ELSE self_credentials(answer)
        o == get_client_options(location_override)
    IN  IF last.op = "create_client" /\ last.kind = "return"
        THEN Returns(last.value, 0)
        ELSE IF c.kind = "raise" THEN c
        ELSE IF o.kind = "raise" THEN Raises(o.exc, o.msg, c.invoked)
        ELSE [Returns([type |-> client_class, credentials |-> c.value,
                       client_options |-> o.value, client_info |-> client_info],
                      c.invoked)
              EXCEPT !.instantiated = 1]

\* The keyword arguments are evaluated in order: the credentials, then the
\* client options; client_class(**kwargs) runs when both are there.
create_client(client_class, credentials, location_override, prediction_client, answer) ==
    LET c == IF Truthy(credentials) THEN Returns(credentials, 0)
             ELSE self_credentials(answer)
        o == get_client_options(location_override)
    IN  IF c.kind = "raise" THEN c
        ELSE IF o.kind = "raise" THEN Raises(o.exc, o.msg, c.invoked)
        ELSE [Returns([type |-> client_class, credentials |-> c.value,
                       client_options |-> o.value, client_info |-> client_info],
                      c.invoked)
              EXCEPT !.instantiated = 1]

Call_create_client ==
    \E credentials \in {None, CredB}, location_override \in {None, asia_east1, not_a_region},
       prediction_client \in {FALSE}, answer \in ProviderAnswers :
        Reads("create_client",
              [client_class |-> "ModelServiceClient", credentials |-> credentials,
               location_override |-> location_override,
               prediction_client |-> prediction_client],
              create_client("ModelServiceClient", credentials, location_override,
                            prediction_client, answer),
              answer)

-----------------------------------------------------------------------------

Next ==
    \/ Call_init
    \/ Read_project
    \/ Read_location
    \/ Read_experiment
    \/ Read_staging_bucket
    \/ Read_credentials
    \/ Read_encryption_spec_key_name
    \/ Call_get_encryption_spec
    \/ Call_get_client_options
    \/ Call_common_location_path
    \/ Call_create_client

Spec == Init /\ [][Next]_vars

-----------------------------------------------------------------------------
(* Threads on global_config.  init is a sequence of "if arg: self._x = arg" *)
(* statements and takes no lock, so a thread switch can fall between any   *)
(* two of them.                                                            *)

pa == <<"p","a">>
pb == <<"p","b">>

\* init(project=p1, location=US_Central1), called before the threads start.
Earlier == [NoCall EXCEPT !.project = p1, !.location = US_Central1]

ThreadProject == [t \in InitThreads |-> IF t = "A" THEN pa ELSE pb]
ThreadLocation == [t \in InitThreads |-> IF t = "A" THEN asia_east1 ELSE us_central1]

\* The init calls thread t may make.
CallsOf(t) ==
    { [NoCall EXCEPT !.project = p, !.location = l, !.experiment = e] :
        p \in {None, ThreadProject[t]},
        l \in {None, ThreadLocation[t], not_a_region},
        e \in ExperimentArgs }

\* The statements of init in their order.
After ==
    [project |-> "location", location |-> "experiment",
     experiment |-> "staging_bucket", staging_bucket |-> "credentials",
     credentials |-> "encryption_spec_key_name",
     encryption_spec_key_name |-> "returned"]

\* self._<f> = v
Assign(f, v) ==
    /\ _project' = IF f = "project" THEN v ELSE _project
    /\ _location' = IF f = "location" THEN v ELSE _location
    /\ _experiment' = IF f = "experiment" THEN v ELSE _experiment
    /\ _staging_bucket' = IF f = "staging_bucket" THEN v ELSE _staging_bucket
    /\ _credentials' = IF f = "credentials" THEN v ELSE _credentials
    /\ _encryption_spec_key_name' =
           IF f = "encryption_spec_key_name" THEN v ELSE _encryption_spec_key_name

\* The registry after the earlier init call, every thread at its first
\* statement.
InitConc ==
    /\ pc = [t \in InitThreads \cup {Reader} |-> "project"]
    /\ calls \in [InitThreads -> UNION {CallsOf(t) : t \in InitThreads}]
    /\ \A t \in InitThreads : calls[t] \in CallsOf(t)
    /\ obs = NothingRead
    /\ cpu_count = Unknown
    /\ global_pool = ThreadPoolExecutor(max_workers(Unknown))
    /\ metadata_service = NewService
    /\ remote = NoResources
    /\ _project = Earlier.project
    /\ _location = Earlier.location
    /\ _experiment = None
    /\ _staging_bucket = None
    /\ _credentials = None
    /\ _encryption_spec_key_name = None
    /\ last = [op |-> "init", args |-> Earlier, kind |-> "return",
               value |-> None, exc |-> "", msg |-> "", invoked |-> 0,
               filters |-> 0, instantiated |-> 0, rpcs |-> <<>>,
               answer |-> NoAnswer, previous |-> None]

\* A statement of init that assigns whether or not the argument is truthy.
init_statement_unconditional(t) ==
    LET f == pc[t]
        v == calls[t][f]
    IN  /\ f \in Fields
        /\ IF f = "location" /\ Truthy(v) /\ ~validate_region(v)
           THEN /\ pc' = [pc EXCEPT ![t] = "raised"]
                /\ UNCHANGED stored
           ELSE /\ pc' = [pc EXCEPT ![t] = After[f]]
                /\ Assign(f, v)
        /\ UNCHANGED <<calls, obs, outside_threads>>

\* One statement of thread t's init call: "if <f>: self._<f> = <f>", with
\* validate_region before the location is assigned.
init_statement(t) ==
    LET f == pc[t]
        v == calls[t][f]
    IN  /\ f \in Fields
        /\ IF f = "location" /\ Truthy(v) /\ ~validate_region(v)
           THEN /\ pc' = [pc EXCEPT ![t] = "raised"]
                /\ UNCHANGED stored
           ELSE /\ pc' = [pc EXCEPT ![t] = After[f]]
                /\ Assign(f, IF Truthy(v) THEN v ELSE Stored[f])
        /\ UNCHANGED <<calls, obs, outside_threads>>

Thread_init == \E t \in InitThreads : init_statement(t)

\* The reading thread evaluates global_config.project ...
Reader_project ==
    /\ pc[Reader] = "project"
    /\ \E answer \in ProviderAnswers :
         LET r == self_project(answer)
         IN  /\ obs' = [obs EXCEPT !.project = r.value]
             /\ pc' = [pc EXCEPT ![Reader] =
                          IF r.kind = "return" THEN "location" ELSE "raised"]
    /\ UNCHANGED <<stored, calls, outside_threads>>

\* ... and then global_config.location.
Reader_location ==
    /\ pc[Reader] = "location"
    /\ obs' = [obs EXCEPT !.location = self_location]
    /\ pc' = [pc EXCEPT ![Reader] = "returned"]
    /\ UNCHANGED <<stored, calls, outside_threads>>

NextConc ==
    \/ Thread_init
    \/ Reader_project
    \/ Reader_location

SpecConc == InitConc /\ [][NextConc]_vars

-----------------------------------------------------------------------------
(* Importing the module: global_config, then global_pool *)

MaxCores == 128

\* The module's statements up to "global_config = _Config()" have run.
InitPool ==
    /\ pc = Unstarted
    /\ calls = [t \in InitThreads |-> NoCall]
    /\ obs = NothingRead
    /\ cpu_count \in {Unknown} \cup {Cores(n) : n \in 0..MaxCores}
    /\ global_pool = NoPool
    /\ metadata_service = NewService
    /\ remote = NoResources
    /\ Fresh

\* global_pool = futures.ThreadPoolExecutor(max_workers=...)
Create_global_pool ==
    /\ ~global_pool.created
    /\ global_pool' = ThreadPoolExecutor(max_workers(cpu_count))
    /\ UNCHANGED <<stored, last, threads, cpu_count, metadata>>

NextPool == Create_global_pool

SpecPool == InitPool /\ [][NextPool]_vars

-----------------------------------------------------------------------------
(* metadata/context.py: _Context *)

metadataStores_str == <<"m","e","t","a","d","a","t","a","S","t","o","r","e","s">>
contexts_str == <<"c","o","n","t","e","x","t","s">>
default_str == <<"d","e","f","a","u","l","t">>
e1 == <<"e","1">>
e2 == <<"e","2">>

\* The characters of the class [\w-].
WordChars ==
    {UpperChars[i] : i \in 1..26} \cup {LowerChars[i] : i \in 1..26}
    \cup {"0","1","2","3","4","5","6","7","8","9","_","-"}

\* [\w-]+
Word(s) == Len(s) > 0 /\ \A i \in 1..Len(s) : s[i] \in WordChars

\* "/" in s
HasSlash(s) == \E i \in 1..Len(s) : s[i] = "/"

\* The segments of s from its i-th character on, cur being the segment begun.
RECURSIVE Segments(_, _, _)
Segments(s, i, cur) ==
    IF i > Len(s) THEN <<cur>>
    ELSE IF s[i] = "/" THEN <<cur>> \o Segments(s, i + 1, <<>>)
    ELSE Segments(s, i + 1, Append(cur, s[i]))

\* s.split("/")
SplitSlash(s) == Segments(s, 1, <<>>)

\* RESOURCE_NAME_PATTERN.match(resource_name)
RESOURCE_NAME_PATTERN(resource_name) ==
    LET parts == SplitSlash(resource_name)
    IN  /\ Len(parts) = 8
        /\ parts[1] = projects_str /\ Word(parts[2])
        /\ parts[3] = locations_str /\ Word(parts[4])
        /\ parts[5] = metadataStores_str /\ Word(parts[6])
        /\ parts[7] = contexts_str /\ Word(parts[8])

\* _Context._extract_metadata_store_id
_extract_metadata_store_id(resource_name) ==
    IF RESOURCE_NAME_PATTERN(resource_name)
    THEN Returns(SplitSlash(resource_name)[6], 0)
    ELSE Raises("ValueError", "failed to extract metadata_store_id from resource", 0)

\* utils.full_resource_name: a fully-qualified name is kept, an ID is put
\* under the project, the location and the resource noun.
full_resource_name(resource_name, resource_noun, project, location) ==
    IF HasSlash(resource_name) THEN resource_name
    ELSE Join(<<"/">>, <<projects_str, project, locations_str, location,
                         resource_noun, resource_name>>)

\* base.AiPlatformResourceNoun.name: the last segment of the resource name.
name(resource) ==
    LET parts == SplitSlash(resource.resource_name) IN parts[Len(parts)]

\* An operation's outcome together with the resources the API holds after it.
With(outcome, api) == [outcome |-> outcome, remote |-> api]

\* outcome with rpcs as the API calls made.
Calling(outcome, rpcs) == [outcome EXCEPT !.rpcs = rpcs]

\* outcome after n more invocations of the provider.
Invoking(outcome, n) == [outcome EXCEPT !.invoked = @ + n]

\* base.AiPlatformResourceNoun._instantiate_client: the client of client_class
\* that global_config.create_client builds.
_instantiate_client(location, credentials, answer) ==
    create_client("MetadataClientWithOverride", credentials, location, FALSE, answer)

\* _Context.__init__ on the API state api.  get_error: the get_context call
\* fails with an error of the service.
Context(api, context_name, metadata_store_id, get_error, answer) ==
    LET sid == IF HasSlash(context_name)
               THEN _extract_metadata_store_id(context_name)
               ELSE Returns(metadata_store_id, 0)
        p == self_project(answer)
        api_client == _instantiate_client(None, None, answer)
        asked == p.invoked + api_client.invoked
    IN  IF p.kind = "raise" THEN p
        ELSE IF api_client.kind = "raise" THEN Invoking(api_client, p.invoked)
        ELSE IF sid.kind = "raise" THEN Invoking(sid, asked)
        ELSE LET resource_name ==
                     full_resource_name(
                         context_name,
                         Join(<<"/">>, <<metadataStores_str, sid.value, contexts_str>>),
                         p.value, self_location)
             IN  IF get_error
                 THEN Calling(Raises("ServiceUnavailable", "get_context", asked),
                              <<"get_context">>)
                 ELSE IF resource_name \notin api.contexts
                 THEN Calling(Raises("NotFound", "get_context", asked),
                              <<"get_context">>)
                 ELSE Calling(Returns([type |-> "_Context",
                                       resource_name |-> resource_name], asked),
                              <<"get_context">>)

\* _Context.create letting AlreadyExists through.
Context_create_raising(api, context_id, metadata_store_id, location, create_error, get_error, answer) ==
    LET api_client == _instantiate_client(location, None, answer)
        parent == common_location_path(None, location, answer)
        context_name ==
            Join(<<"/">>, <<parent.value, metadataStores_str, metadata_store_id,
                            contexts_str, context_id>>)
        asked == api_client.invoked + parent.invoked
    IN  IF api_client.kind = "raise" THEN With(api_client, api)
        ELSE IF parent.kind = "raise" THEN With(Invoking(parent, api_client.invoked), api)
        ELSE IF create_error
        THEN With(Calling(Raises("ServiceUnavailable", "create_context", asked),
                          <<"create_context">>), api)
        ELSE IF context_name \in api.contexts
        THEN With(Calling(Raises("AlreadyExists", "create_context", asked),
                          <<"create_context">>), api)
        ELSE LET created == [api EXCEPT !.contexts = @ \cup {context_name}]
                 \* cls(context_name=..., metadata_store_id={metadata_store_id})
                 context == Context(created, context_name, <<metadata_store_id>>,
                                    get_error, answer)
             IN  With(Invoking(Calling(context, <<"create_context">> \o context.rpcs),
                               asked),
                      created)

\* _Context.create on the API state api.  create_error: create_context fails
\* with an error of the service other than AlreadyExists, which is what it
\* fails with when the API holds the context.
Context_create(api, context_id, metadata_store_id, location, create_error, get_error, answer) ==
    LET api_client == _instantiate_client(location, None, answer)
        parent == common_location_path(None, location, answer)
        context_name ==
            Join(<<"/">>, <<parent.value, metadataStores_str, metadata_store_id,
                            contexts_str, context_id>>)
        asked == api_client.invoked + parent.invoked
    IN  IF api_client.kind = "raise" THEN With(api_client, api)
        ELSE IF parent.kind = "raise" THEN With(Invoking(parent, api_client.invoked), api)
        ELSE IF create_error
        THEN With(Calling(Raises("ServiceUnavailable", "create_context", asked),
                          <<"create_context">>), api)
        ELSE LET created == [api EXCEPT !.contexts = @ \cup {context_name}]
                 \* cls(context_name=..., metadata_store_id={metadata_store_id})
                 context == Context(created, context_name, <<metadata_store_id>>,
                                    get_error, answer)
             IN  With(Invoking(Calling(context, <<"create_context">> \o context.rpcs),
                               asked),
                      created)


-----------------------------------------------------------------------------
(* metadata/metadata.py: _MetadataService *)

r1 == <<"r","1">>
m1 == <<"Metrics#1">>
m2 == <<"Metrics#2">>
params1 == <<"Params#1">>
no_metadata == <<"{}">>

\* The resource named id among the executions or artifacts held, if any.
Held(resources, id) == {r \in resources : r.id = id}

\* resources after a create or update of the one named id.
Put(resources, id, md) ==
    {r \in resources : r.id # id} \cup {[id |-> id, metadata |-> md]}

\* The name of the context with this ID in the default store.
ContextName(context_id) ==
    Join(<<"/">>, <<projects_str, _project, locations_str, self_location,
                    metadataStores_str, default_str, contexts_str, context_id>>)

\* What an operation leaves behind: its outcome, the fields of the service
\* and the resources of the API.
Leaves(outcome, service, api) ==
    [outcome |-> outcome, service |-> service, remote |-> api]

\* An operation that raised before it assigned anything or called the API.
Rejects(msg) == Leaves(Raises("ValueError", msg, 0), metadata_service, remote)

\* The first call to the API fails with an error of the service.
Unavailable(rpc) ==
    Leaves(Calling(Raises("ServiceUnavailable", rpc, 0), <<rpc>>),
           metadata_service, remote)

\* set_experiment clearing the run and the metrics of the experiment it leaves.
set_experiment_resets(experiment_name, unavailable, answer) ==
    IF ~Truthy(experiment_name) THEN Rejects("Invalid experiment_name")
    ELSE IF unavailable THEN Unavailable("get_metadata_store")
    ELSE LET stored_api == [remote EXCEPT !.store = TRUE]
             store_rpcs == IF remote.store THEN <<"get_metadata_store">>
                           ELSE <<"get_metadata_store", "create_metadata_store">>
         IN  IF ContextName(experiment_name) \in stored_api.contexts
             THEN Leaves(Calling(Returns(None, 0), store_rpcs \o <<"get_context">>),
                         [NewService EXCEPT !._experiment =
                             name([resource_name |-> ContextName(experiment_name)])],
                         stored_api)
             ELSE LET c == Context_create(stored_api, experiment_name, default_str,
                                          None, FALSE, FALSE, answer)
                      rpcs == store_rpcs \o <<"get_context">> \o c.outcome.rpcs
                  IN  IF c.outcome.kind = "raise"
                      THEN Leaves(Calling(c.outcome, rpcs), metadata_service, c.remote)
                      ELSE Leaves(Calling([c.outcome EXCEPT !.value = None], rpcs),
                                  [NewService EXCEPT
                                      !._experiment = name(c.outcome.value)],
                                  c.remote)

\* _MetadataService.set_experiment
set_experiment(experiment_name, unavailable, answer) ==
    IF ~Truthy(experiment_name) THEN Rejects("Invalid experiment_name")
    ELSE IF unavailable THEN Unavailable("get_metadata_store")
    ELSE LET stored_api == [remote EXCEPT !.store = TRUE]
             store_rpcs == IF remote.store THEN <<"get_metadata_store">>
                           ELSE <<"get_metadata_store", "create_metadata_store">>
         IN  IF ContextName(experiment_name) \in stored_api.contexts
             THEN Leaves(Calling(Returns(None, 0), store_rpcs \o <<"get_context">>),
                         [metadata_service EXCEPT !._experiment =
                             name([resource_name |-> ContextName(experiment_name)])],
                         stored_api)
             ELSE LET c == Context_create(stored_api, experiment_name, default_str,
                                          None, FALSE, FALSE, answer)
                      rpcs == store_rpcs \o <<"get_context">> \o c.outcome.rpcs
                  IN  IF c.outcome.kind = "raise"
                      THEN Leaves(Calling(c.outcome, rpcs), metadata_service, c.remote)
                      ELSE Leaves(Calling([c.outcome EXCEPT !.value = None], rpcs),
                                  [metadata_service EXCEPT
                                      !._experiment = name(c.outcome.value)],
                                  c.remote)

no_experiment_msg == "No experiment found"
no_run_msg == "No run found"

\* set_run without its check of the experiment.
set_run_unguarded(run_name, unavailable) ==
    IF ~Truthy(run_name) THEN Rejects("Invalid run_name")
    ELSE IF unavailable THEN Unavailable("get_execution")
    ELSE IF Held(remote.executions, run_name) # {}
    THEN Leaves(Calling(Returns(None, 0), <<"get_execution">>),
                [metadata_service EXCEPT !._run = run_name], remote)
    ELSE Leaves(Calling(Returns(None, 0), <<"get_execution", "create_execution">>),
                [metadata_service EXCEPT !._run = run_name],
                [remote EXCEPT !.executions = Put(@, run_name, no_metadata)])

\* _MetadataService.set_run
set_run(run_name, unavailable) ==
    IF ~Truthy(metadata_service._experiment) THEN Rejects(no_experiment_msg)
    ELSE IF ~Truthy(run_name) THEN Rejects("Invalid run_name")
    ELSE IF unavailable THEN Unavailable("get_execution")
    ELSE IF Held(remote.executions, run_name) # {}
    THEN Leaves(Calling(Returns(None, 0), <<"get_execution">>),
                [metadata_service EXCEPT !._run = run_name], remote)
    ELSE Leaves(Calling(Returns(None, 0), <<"get_execution", "create_execution">>),
                [metadata_service EXCEPT !._run = run_name],
                [remote EXCEPT !.executions = Put(@, run_name, no_metadata)])

\* _MetadataService.log_params
log_params(params, unavailable) ==
    LET run == metadata_service._run
    IN  IF ~Truthy(metadata_service._experiment) THEN Rejects(no_experiment_msg)
        ELSE IF ~Truthy(run) THEN Rejects(no_run_msg)
        ELSE IF unavailable THEN Unavailable("get_execution")
        ELSE Leaves(Calling(Returns(None, 0),
                            IF Held(remote.executions, run) = {}
                            THEN <<"get_execution", "create_execution">>
                            ELSE <<"get_execution", "update_execution">>),
                    [metadata_service EXCEPT !._run = run],
                    [remote EXCEPT !.executions = Put(@, run, params)])

\* self._experiment and self._run in f"{self._experiment}-{self._run}"
artifact_id_of(experiment, run) == experiment \o <<"-">> \o run

\* log_metrics creating its artifact on every call; the API answers
\* AlreadyExists when it holds an artifact of the ID.
log_metrics_always_creates(metrics, unavailable) ==
    LET artifact_id == artifact_id_of(metadata_service._experiment,
                                      metadata_service._run)
    IN  IF ~Truthy(metadata_service._experiment) THEN Rejects(no_experiment_msg)
        ELSE IF ~Truthy(metadata_service._run) THEN Rejects(no_run_msg)
        ELSE IF unavailable THEN Unavailable("create_artifact")
        ELSE IF Held(remote.artifacts, artifact_id) # {}
        THEN Leaves(Calling(Raises("AlreadyExists", "create_artifact", 0),
                            <<"create_artifact">>),
                    metadata_service, remote)
        ELSE Leaves(Calling(Returns(None, 0), <<"create_artifact">>),
                    [metadata_service EXCEPT !._metrics = artifact_id],
                    [remote EXCEPT !.artifacts = Put(@, artifact_id, metrics)])

\* _MetadataService.log_metrics
log_metrics(metrics, unavailable) ==
    LET artifact_id == artifact_id_of(metadata_service._experiment,
                                      metadata_service._run)
    IN  IF ~Truthy(metadata_service._experiment) THEN Rejects(no_experiment_msg)
        ELSE IF ~Truthy(metadata_service._run) THEN Rejects(no_run_msg)
        ELSE IF unavailable THEN Unavailable("get_artifact")
        ELSE Leaves(Calling(Returns(None, 0),
                            IF Held(remote.artifacts, artifact_id) = {}
                            THEN <<"get_artifact", "create_artifact">>
                            ELSE <<"get_artifact", "update_artifact">>),
                    [metadata_service EXCEPT !._metrics = artifact_id],
                    [remote EXCEPT !.artifacts = Put(@, artifact_id, metrics)])

\* An operation of the metadata service, or of _Context, has run.
Tracks(op, args, left, answer) ==
    /\ last' = Did(op, args, left.outcome, answer)
    /\ metadata_service' = left.service
    /\ remote' = left.remote
    /\ UNCHANGED <<stored, threads, pool>>

Call_set_experiment ==
    \E experiment_name \in {None, <<>>, e1, e2}, unavailable \in BOOLEAN,
       answer \in ProviderAnswers :
        Tracks("set_experiment", [experiment_name |-> experiment_name],
               set_experiment(experiment_name, unavailable, answer), answer)

Call_set_run ==
    \E run_name \in {None, <<>>, r1}, unavailable \in BOOLEAN :
        Tracks("set_run", [run_name |-> run_name],
               set_run(run_name, unavailable), NoAnswer)

Call_log_params ==
    \E unavailable \in BOOLEAN :
        Tracks("log_params", [params |-> params1],
               log_params(params1, unavailable), NoAnswer)

Call_log_metrics ==
    \E metrics \in {m1, m2}, unavailable \in BOOLEAN :
        Tracks("log_metrics", [metrics |-> metrics, unavailable |-> unavailable],
               log_metrics(metrics, unavailable), NoAnswer)

\* _MetadataService.get_experiment and get_pipeline
Call_get_experiment ==
    Tracks("get_experiment", [experiment_name |-> e1],
           Leaves(Raises("NotImplementedError", "get_experiment not implemented", 0),
                  metadata_service, remote),
           NoAnswer)

\* The API call of _Context.create that fails with an error of the service,
\* if one does.
Faults == {"none", "create_context", "get_context"}

Call_Context_create ==
    \E context_id \in {e1, e2}, fault \in Faults, answer \in ProviderAnswers :
        LET c == Context_create(remote, context_id, default_str, None,
                                fault = "create_context", fault = "get_context",
                                answer)
        IN  Tracks("_Context.create",
                   [context_id |-> context_id, fault |-> fault,
                    existed |-> ContextName(context_id) \in remote.contexts],
                   Leaves(c.outcome, metadata_service, c.remote), answer)

\* The registry after init(project=p1, location=asia_east1), a new
\* _MetadataService, an API that holds nothing.
InitMeta ==
    /\ pc = Unstarted
    /\ calls = [t \in InitThreads |-> NoCall]
    /\ obs = NothingRead
    /\ cpu_count = Unknown
    /\ global_pool = ThreadPoolExecutor(max_workers(Unknown))
    /\ metadata_service = NewService
    /\ remote = NoResources
    /\ _project = p1
    /\ _location = asia_east1
    /\ _experiment = None
    /\ _staging_bucket = None
    /\ _credentials = None
    /\ _encryption_spec_key_name = None
    /\ last = [op |-> "init",
               args |-> [NoCall EXCEPT !.project = p1, !.location = asia_east1],
               kind |-> "return", value |-> None, exc |-> "", msg |-> "",
               invoked |-> 0, filters |-> 0, instantiated |-> 0, rpcs |-> <<>>,
               answer |-> NoAnswer, previous |-> None]

NextMeta ==
    \/ Call_set_experiment
    \/ Call_set_run
    \/ Call_log_params
    \/ Call_log_metrics
    \/ Call_get_experiment
    \/ Call_Context_create

SpecMeta == InitMeta /\ [][NextMeta]_vars

-----------------------------------------------------------------------------
(* Claims about init *)

\* C1 as stated: every init call, failing or not, sets exactly the stored
\* fields whose argument is truthy and keeps every other one.
C1_InitSetsExactlyTruthy ==
    [][last'.op = "init" =>
        \A f \in Fields :
            Stored'[f] = IF Truthy(last'.args[f]) THEN last'.args[f] ELSE Stored[f]]_vars

\* The arguments of an init call that passes only argument f.
OnlyArg(args, f) == \A g \in Fields : Truthy(args[g]) <=> g = f

\* C1 as amended: an init call that returns normally sets exactly the stored
\* fields whose argument is truthy; in every init call, failing or not, a field
\* whose argument is None or empty keeps its prior value; and init(project=P)
\* followed by init(location=L) with L valid leaves project = P, location = L.
C1_InitMerges ==
    [][last'.op = "init" =>
        /\ \A f \in Fields : ~Truthy(last'.args[f]) => Stored'[f] = Stored[f]
        /\ last'.kind = "return" =>
              \A f \in Fields : Truthy(last'.args[f]) => Stored'[f] = last'.args[f]
        /\ ( /\ last.op = "init" /\ last.kind = "return"
             /\ OnlyArg(last.args, "project")
             /\ OnlyArg(last'.args, "location") /\ last'.kind = "return" )
           => _project' = last.args.project /\ _location' = last'.args.location]_vars

\* init(project="", location="asia-east1") has returned on a registry whose
\* project was "p1": the project is kept and the location is set.
C1_Witness ==
    /\ last.op = "init" /\ last.kind = "return"
    /\ last.args.project = <<>> /\ _project = p1
    /\ last.args.location = asia_east1 /\ _location = asia_east1

\* C2: init(location=X) with X failing region validation raises ValueError
\* before the store: the stored location, and what the location read returns,
\* are what they were before the call.
C2_InvalidLocationNotStored ==
    [][( /\ last'.op = "init"
         /\ Truthy(last'.args.location)
         /\ Lower(last'.args.location) \notin SUPPORTED_REGIONS )
       => /\ last'.kind = "raise" /\ last'.exc = "ValueError"
          /\ _location' = _location
          /\ self_location' = self_location]_vars

\* init(location="not-a-region") has failed on a registry whose location was
\* "asia-east1", and the location read still returns "asia-east1".
C2_Witness ==
    /\ last.op = "init" /\ last.kind = "raise" /\ last.exc = "ValueError"
    /\ last.args.location = not_a_region
    /\ _location = asia_east1 /\ self_location = asia_east1

\* C3: init is not atomic: a call with a truthy project and an invalid location
\* fails with the validation error, has applied the project, and leaves the
\* location and every field after it (experiment, staging_bucket, credentials,
\* encryption_spec_key_name) at its value before the call.
C3_InitNotAtomic ==
    [][( /\ last'.op = "init"
         /\ Truthy(last'.args.project)
         /\ Truthy(last'.args.location)
         /\ Lower(last'.args.location) \notin SUPPORTED_REGIONS )
       => /\ last'.kind = "raise" /\ last'.exc = "ValueError"
          /\ _project' = last'.args.project
          /\ \A f \in Fields \ {"project"} : Stored'[f] = Stored[f]]_vars

\* init(project="p1", location="not-a-region", experiment, staging_bucket,
\* credentials, encryption_spec_key_name all given) has failed on a fresh
\* registry: the project is applied and nothing else is.
C3_Witness ==
    /\ last.op = "init" /\ last.kind = "raise"
    /\ last.args = [project |-> p1, location |-> not_a_region, experiment |-> exp1,
                    staging_bucket |-> bucket1, credentials |-> CredC,
                    encryption_spec_key_name |-> key1]
    /\ _project = p1
    /\ _location = None /\ _experiment = None /\ _staging_bucket = None
    /\ _credentials = None /\ _encryption_spec_key_name = None

-----------------------------------------------------------------------------
(* Claims about the property reads *)

\* C4: the project read returns the stored project without invoking the
\* provider when a project is set; otherwise it invokes the provider once and
\* returns its project id, raises GoogleAuthError if the provider raises, and
\* raises ValueError if the provider returns no project id.
C4_ProjectRead ==
    [][last'.op = "project" =>
        IF _project # None
        THEN /\ last'.kind = "return" /\ last'.value = _project
             /\ last'.invoked = 0 /\ last'.answer = NoAnswer
        ELSE /\ last'.invoked = 1 /\ last'.answer \in ProviderAnswers
             /\ CASE last'.answer.kind = "raise" ->
                       last'.kind = "raise" /\ last'.exc = "GoogleAuthError"
                  [] last'.answer.kind = "ok" /\ last'.answer.project = None ->
                       last'.kind = "raise" /\ last'.exc = "ValueError"
                  [] OTHER ->
                       last'.kind = "return" /\ last'.value = last'.answer.project]_vars

\* The project was read with none set and the provider returned (creds, None):
\* ValueError.
C4_Witness ==
    /\ last.op = "project" /\ _project = None
    /\ last.answer.kind = "ok" /\ last.answer.project = None
    /\ last.kind = "raise" /\ last.exc = "ValueError"

\* C5 as stated: when the provider raises, the GoogleAuthError of the project
\* read carries the provider's own message.
C5_ProviderMessageKept ==
    [][( last'.op = "project" /\ _project = None /\ last'.answer.kind = "raise" )
       => /\ last'.kind = "raise" /\ last'.exc = "GoogleAuthError"
          /\ last'.msg = last'.answer.msg]_vars

\* C5 as amended: when the provider raises, the project read raises a new
\* GoogleAuthError whose message is the registry's own fixed text
\* project_not_found_exception_str, the one its ValueError carries too; the
\* provider's message is dropped.
C5_OwnMessage ==
    [][( last'.op = "project" /\ _project = None /\ last'.answer.kind = "raise" )
       => /\ last'.kind = "raise" /\ last'.exc = "GoogleAuthError"
          /\ last'.msg = project_not_found_exception_str
          /\ last'.msg # last'.answer.msg]_vars

\* The project was read with none set and the provider raised.
C5_Witness ==
    /\ last.op = "project" /\ _project = None
    /\ last.answer.kind = "raise" /\ last.answer.msg = provider_msg
    /\ last.kind = "raise" /\ last.exc = "GoogleAuthError"

\* C6: project and credentials are not memoized: while the field is unset,
\* every read invokes the provider exactly once, returns what the provider
\* answers at that invocation, and leaves the field unset; so of two reads in
\* a row between which the provider's answer changed, the second returns the
\* new answer.
C6_NotMemoized ==
    [][/\ ( last'.op = "project" /\ _project = None )
          => /\ last'.invoked = 1 /\ last'.answer \in ProviderAnswers
             /\ last'.kind = "return" => last'.value = last'.answer.project
             /\ Truthy(last'.answer.project) => last'.kind = "return"
             /\ _project' = None
             /\ ( last.op = "project" /\ last.kind = "return" /\ last'.kind = "return"
                  /\ last'.answer.project # last.answer.project )
                => last'.value # last.value
       /\ ( last'.op = "credentials" /\ _credentials = None )
          => /\ last'.invoked = 1 /\ last'.answer \in ProviderAnswers
             /\ last'.kind = "return" => last'.value = last'.answer.creds
             /\ last'.answer.kind = "ok" => last'.kind = "return"
             /\ _credentials' = None
             /\ ( last.op = "credentials" /\ last.kind = "return" /\ last'.kind = "return"
                  /\ last'.answer.creds # last.answer.creds )
                => last'.value # last.value]_vars

\* Two project reads in a row with no project set: the first returned "env",
\* the second, after the provider's answer changed, "env2".
C6_Witness ==
    /\ last.op = "project" /\ _project = None
    /\ last.invoked = 1
    /\ last.kind = "return" /\ last.value = env_project2
    /\ last.previous = <<"return", env_project>>

\* C7: the registry starts with all six fields None, and no operation but
\* init changes a stored field, whether it returns or raises: a lazily
\* resolved project or credential is not written back.
C7_OnlyInitMutates ==
    /\ \A f \in Fields : Stored[f] = None
    /\ [][last'.op # "init" => stored' = stored]_vars

\* A project read has resolved the project from the provider and _project is
\* still None.
C7_Witness ==
    /\ last.op = "project" /\ last.invoked = 1
    /\ last.kind = "return" /\ last.value = env_project
    /\ _project = None

\* C8: the location read never fails; it returns the stored location when one
\* is set and DEFAULT_REGION otherwise.
C8_LocationRead ==
    [][last'.op = "location" =>
        /\ last'.kind = "return"
        /\ last'.value = IF _location # None THEN _location ELSE DEFAULT_REGION
        /\ Truthy(last'.value)]_vars

\* The location was read on a registry with none set: "us-central1".
C8_Witness ==
    /\ last.op = "location" /\ _location = None
    /\ last.kind = "return" /\ last.value = us_central1

-----------------------------------------------------------------------------
(* Claims about get_client_options *)

\* C9 as stated: get_client_options() with no override on a registry whose
\* location was never set raises ValueError.
C9_NoLocationRaises ==
    [][( /\ last'.op = "get_client_options"
         /\ last'.args.location_override = None
         /\ _location = None )
       => last'.kind = "raise" /\ last'.exc = "ValueError"]_vars

\* The lower-cased form of each region string the operations are called with.
Folded(region) == IF region = US_Central1 THEN us_central1 ELSE region

\* C10: get_client_options takes the region from the override when one is
\* given and otherwise from the stored location, lower-cases it, validates the
\* lower-cased value, and returns the endpoint "<lower-cased region>-<API base
\* path>"; stored "US-Central1" and no override give "us-central1-<base>".
C10_ClientOptions ==
    [][( /\ last'.op = "get_client_options"
         /\ Truthy(last'.args.location_override) \/ _location # None )
       => LET region == IF Truthy(last'.args.location_override)
                        THEN last'.args.location_override ELSE _location
          IN  /\ Folded(region) \in SUPPORTED_REGIONS
                 => /\ last'.kind = "return"
                    /\ last'.value.api_endpoint = Folded(region) \o <<"-">> \o API_BASE_PATH
              /\ Folded(region) \notin SUPPORTED_REGIONS
                 => last'.kind = "raise" /\ last'.exc = "ValueError"
              /\ ( ~Truthy(last'.args.location_override) /\ _location = US_Central1 )
                 => /\ last'.kind = "return"
                    /\ last'.value.api_endpoint = us_central1 \o <<"-">> \o API_BASE_PATH]_vars

\* get_client_options() has returned on a registry whose location is
\* "US-Central1": the endpoint starts "us-central1-".
C10_Witness ==
    /\ last.op = "get_client_options" /\ last.args.location_override = None
    /\ _location = US_Central1
    /\ last.kind = "return"
    /\ SubSeq(last.value.api_endpoint, 1, 12) =
           <<"u","s","-","c","e","n","t","r","a","l","1","-">>
    /\ SubSeq(last.value.api_endpoint, 13, Len(last.value.api_endpoint)) = API_BASE_PATH

-----------------------------------------------------------------------------
(* Claims about common_location_path and get_encryption_spec *)

\* "projects/<project>/locations/<location>"
Path(project, location) ==
    projects_str \o <<"/">> \o project \o <<"/">> \o locations_str \o <<"/">> \o location

\* C11 as stated, on its example: common_location_path(project="p1",
\* location="l1") returns "projects/p1/locations/l1".
C11_ExamplePath ==
    [][( /\ last'.op = "common_location_path"
         /\ last'.args.project = p1 /\ last'.args.location = l1 )
       => /\ last'.kind = "return"
          /\ last'.value = <<"p","r","o","j","e","c","t","s","/","p","1","/",
                             "l","o","c","a","t","i","o","n","s","/","l","1">>]_vars

\* C11 as amended: a supplied location is validated before anything else, and
\* one that is no recognised region ("l1") raises ValueError without a project
\* read; otherwise the call returns "projects/p/locations/l" where p is the
\* supplied project or else the project read (which may ask the provider and
\* fail as the read does) and l the supplied location or else the location
\* read; project="p1", location="asia-east1" gives
\* "projects/p1/locations/asia-east1".
C11_LocationPath ==
    [][last'.op = "common_location_path" =>
        LET project == last'.args.project
            location == last'.args.location
            l == IF location # None THEN location
                 ELSE IF _location # None THEN _location ELSE DEFAULT_REGION
        IN  IF location # None /\ Folded(location) \notin SUPPORTED_REGIONS
            THEN /\ last'.kind = "raise" /\ last'.exc = "ValueError"
                 /\ last'.invoked = 0
            ELSE /\ project # None
                    => /\ last'.kind = "return" /\ last'.value = Path(project, l)
                       /\ last'.invoked = 0
                 /\ ( project = None /\ _project # None )
                    => /\ last'.kind = "return" /\ last'.value = Path(_project, l)
                       /\ last'.invoked = 0
                 /\ ( project = None /\ _project = None )
                    => /\ last'.invoked = 1
                       /\ CASE last'.answer.kind = "raise" ->
                                 last'.kind = "raise" /\ last'.exc = "GoogleAuthError"
                            [] last'.answer.kind = "ok" /\ last'.answer.project = None ->
                                 last'.kind = "raise" /\ last'.exc = "ValueError"
                            [] OTHER ->
                                 /\ last'.kind = "return"
                                 /\ last'.value = Path(last'.answer.project, l)
                 /\ ( project = p1 /\ location = asia_east1 )
                    => last'.value =
                         <<"p","r","o","j","e","c","t","s","/","p","1","/",
                           "l","o","c","a","t","i","o","n","s","/",
                           "a","s","i","a","-","e","a","s","t","1">>]_vars

\* common_location_path(location="l1") has raised ValueError on a registry
\* with no project set, without a project read.
C11_Witness ==
    /\ last.op = "common_location_path"
    /\ last.args.project = None /\ last.args.location = l1
    /\ _project = None
    /\ last.kind = "raise" /\ last.exc = "ValueError" /\ last.invoked = 0

\* C12: get_encryption_spec(k, version) resolves the key name as k when k is
\* non-empty and otherwise as the stored encryption_spec_key_name; it returns
\* None when no key name resolves, and otherwise an EncryptionSpec whose
\* kms_key_name is the resolved name, of the schema variant the version selects.
C12_EncryptionSpec ==
    [][last'.op = "get_encryption_spec" =>
        LET k == last'.args.encryption_spec_key_name
            resolved == IF k # None /\ k # <<>> THEN k ELSE _encryption_spec_key_name
        IN  /\ last'.kind = "return"
            /\ IF resolved = None
               THEN last'.value = None
               ELSE /\ last'.value.type = "EncryptionSpec"
                    /\ last'.value.kms_key_name = resolved
                    /\ last'.value.module =
                         IF last'.args.select_version = V1BETA1
                         THEN "encryption_spec_v1beta1" ELSE "encryption_spec_compat"]_vars

\* get_encryption_spec("k2") on a registry whose stored key is "key" has
\* returned an EncryptionSpec for "k2".
C12_Witness ==
    /\ last.op = "get_encryption_spec"
    /\ last.args.encryption_spec_key_name = key2
    /\ _encryption_spec_key_name = key1
    /\ last.kind = "return"
    /\ last.value.kms_key_name = key2

-----------------------------------------------------------------------------
(* Claims about the credentials read and create_client *)

\* C13 as stated: after every credentials read that reaches the provider, on
\* every exit path including the provider raising, the warning filter has been
\* removed: the read leaves no filter on the logger "google.auth._default".
C13_FilterScoped ==
    [][( last'.op = "credentials" /\ last'.invoked = 1 ) => last'.filters = 0]_vars

\* C14: create_client does not cache: every call that returns has constructed
\* client_class exactly once, with the supplied credentials if given (the
\* provider is then not asked) or else the credentials read, the client options
\* of location_override or else the stored or default location, and the
\* client_info; a call that raises, as when get_client_options fails, has
\* constructed no client.
C14_CreateClient ==
    [][last'.op = "create_client" =>
        LET a == last'.args
            region == IF a.location_override # None THEN a.location_override
                      ELSE IF _location # None THEN _location ELSE DEFAULT_REGION
        IN  /\ a.credentials # None => last'.invoked = 0
            /\ last'.kind = "raise" => last'.instantiated = 0
            /\ Folded(region) \notin SUPPORTED_REGIONS => last'.kind = "raise"
            /\ last'.kind = "return" =>
                  /\ last'.instantiated = 1
                  /\ last'.value.type = a.client_class
                  /\ last'.value.credentials =
                        IF a.credentials # None THEN a.credentials
                        ELSE IF _credentials # None THEN _credentials
                        ELSE last'.answer.creds
                  /\ last'.value.client_options.api_endpoint =
                        Folded(region) \o <<"-">> \o API_BASE_PATH
                  /\ last'.value.client_info = client_info]_vars

\* A create_client call without credentials, none stored, has returned a
\* client it constructed with the credentials the provider answered.
C14_Witness ==
    /\ last.op = "create_client" /\ last.kind = "return"
    /\ last.args.credentials = None /\ _credentials = None
    /\ last.invoked = 1 /\ last.instantiated = 1
    /\ last.value.credentials = CredA

-----------------------------------------------------------------------------
(* Claims about threads *)

\* C15: init assigns its fields one at a time without a lock: each step of a
\* running init changes at most one stored field, and every stored field always
\* holds the value it had before the threads started (the value of the earlier
\* init call, or None where it gave none) or a value supplied by one of the
\* init calls.  What the reader has read is such a value too.
C15_OneFieldAtATime ==
    /\ [](\A f \in Fields :
            \/ Stored[f] = last.args[f]
            \/ \E t \in InitThreads :
                 Truthy(calls[t][f]) /\ Stored[f] = calls[t][f])
    /\ [](obs.project \in {None, Earlier.project}
                            \cup {calls[t].project : t \in InitThreads})
    /\ [][Cardinality({f \in Fields : Stored[f]' # Stored[f]}) <= 1]_vars

\* init(project=pa, location=asia_east1) and init(project=pb,
\* location=us_central1) have both returned on a registry that held
\* (p1, US_Central1): the project is the second call's and the location the
\* first call's, and the reader has read the second call's project with the
\* location from before either call.
C15_Witness ==
    /\ \A t \in InitThreads \cup {Reader} : pc[t] = "returned"
    /\ calls["A"].project = pa /\ calls["A"].location = asia_east1
    /\ calls["B"].project = pb /\ calls["B"].location = us_central1
    /\ _project = pb /\ _location = asia_east1
    /\ obs = [project |-> pb, location |-> US_Central1]

-----------------------------------------------------------------------------
(* Claims about the worker pool *)

\* C16: global_pool has min(32, max(4, 5*c)) workers, c being the core count
\* reported and 0 when it is None: the size is within 4..32, it is 4 when the
\* count is None or 0, and it is 32 from 7 cores on.
C16_MaxWorkers ==
    global_pool.created =>
        LET c == IF cpu_count = Unknown THEN 0 ELSE cpu_count.n
            n == global_pool.max_workers
        IN  /\ n = min(32, max(4, 5 * c))
            /\ n >= 4 /\ n <= 32
            /\ c = 0 => n = 4
            /\ c >= 7 => n = 32

\* The pool has been created with 32 workers for exactly 7 cores.
C16_Witness ==
    /\ global_pool.created
    /\ cpu_count = Cores(7)
    /\ global_pool.max_workers = 32

-----------------------------------------------------------------------------
(* Claims about the metadata service *)

ServiceOps == {"set_experiment", "set_run", "log_params", "log_metrics"}

\* C17: the tracking operations are ordered.  set_run raises ValueError while
\* no set_experiment has succeeded, log_params and log_metrics raise ValueError
\* unless an experiment and a run are set, set_experiment and set_run raise
\* ValueError on an empty name; a call rejected so leaves _experiment, _run
\* and _metrics as they were and calls the API not at all.  Hence a run is set
\* only with an experiment set, and metrics only with a run set.
C17_Ordered ==
    /\ [](/\ Truthy(metadata_service._run) => Truthy(metadata_service._experiment)
          /\ Truthy(metadata_service._metrics) => Truthy(metadata_service._run))
    /\ [][/\ metadata_service'._experiment # metadata_service._experiment
              => last'.op = "set_experiment" /\ last'.kind = "return"
          /\ ( last'.op = "set_run" /\ ~Truthy(metadata_service._experiment) )
              => last'.exc = "ValueError"
          /\ ( /\ last'.op \in {"log_params", "log_metrics"}
               /\ ~( Truthy(metadata_service._experiment)
                     /\ Truthy(metadata_service._run) ) )
              => last'.exc = "ValueError"
          /\ ( last'.op = "set_experiment" /\ ~Truthy(last'.args.experiment_name) )
              => last'.exc = "ValueError"
          /\ ( last'.op = "set_run" /\ ~Truthy(last'.args.run_name) )
              => last'.exc = "ValueError"
          /\ ( last'.op \in ServiceOps /\ last'.exc = "ValueError" )
              => /\ metadata_service' = metadata_service
                 /\ remote' = remote
                 /\ last'.rpcs = <<>>]_vars

\* set_run("r1") has been rejected for want of an experiment although the API
\* holds a context: no run is set and no execution was created.
C17_Witness ==
    /\ last.op = "set_run" /\ last.args.run_name = r1
    /\ last.exc = "ValueError" /\ last.msg = no_experiment_msg
    /\ metadata_service = NewService
    /\ remote.contexts # {} /\ remote.executions = {}

\* C18: one metrics artifact for each (experiment, run).  A log_metrics call
\* that returns has created the artifact "<experiment>-<run>" if the API did
\* not hold it and updated it if it did, the API holds exactly one artifact of
\* that id with the metrics of the call, and no artifact is ever dropped or
\* held twice.
C18_OneArtifact ==
    /\ [](\A a, b \in remote.artifacts : a.id = b.id => a = b)
    /\ [][/\ \A a \in remote.artifacts : Held(remote'.artifacts, a.id) # {}
          /\ ( last'.op = "log_metrics" /\ last'.kind = "return" ) =>
               LET id == metadata_service._experiment \o <<"-">> \o metadata_service._run
               IN  /\ last'.rpcs = IF Held(remote.artifacts, id) = {}
                                   THEN <<"get_artifact", "create_artifact">>
                                   ELSE <<"get_artifact", "update_artifact">>
                   /\ Held(remote'.artifacts, id) =
                          {[id |-> id, metadata |-> last'.args.metrics]}
                   /\ \A a \in remote'.artifacts :
                          a.id # id => a \in remote.artifacts
                   /\ metadata_service'._metrics = id]_vars

\* A second log_metrics under experiment e1 and run r1 has updated the one
\* artifact "e1-r1", which now holds the metrics of that call.
C18_Witness ==
    /\ last.op = "log_metrics" /\ last.kind = "return"
    /\ last.rpcs = <<"get_artifact", "update_artifact">>
    /\ last.args.metrics = m2
    /\ remote.artifacts = {[id |-> <<"e","1","-","r","1">>, metadata |-> m2]}

\* _Context.create has called create_context and the call failed with
\* AlreadyExists: the API held the context and answered.
AlreadyExisted ==
    /\ last'.op = "_Context.create"
    /\ Len(last'.rpcs) > 0
    /\ last'.args.existed
    /\ last'.args.fault # "create_context"

\* C19 as stated: when create_context fails with AlreadyExists no error
\* reaches the caller: create returns the _Context of the fully-qualified name
\* "<parent>/metadataStores/<metadata_store_id>/contexts/<context_id>".
C19_NoErrorReachesCaller ==
    [][AlreadyExisted =>
        /\ last'.kind = "return"
        /\ last'.value.resource_name = ContextName(last'.args.context_id)]_vars

\* C19: AlreadyExists from create_context is swallowed and create goes on to
\* get the context by its fully-qualified name
\* "<parent>/metadataStores/<metadata_store_id>/contexts/<context_id>", the
\* name it gets after a first successful creation too: it returns that
\* _Context unless get_context fails, and an error of get_context, or any
\* error of create_context other than AlreadyExists, propagates.
C19_AlreadyExistsSwallowed ==
    [][( last'.op = "_Context.create" /\ Len(last'.rpcs) > 0 ) =>
        LET a == last'.args
            fqn == Path(_project, self_location) \o <<"/">> \o metadataStores_str
                   \o <<"/">> \o default_str \o <<"/">> \o contexts_str
                   \o <<"/">> \o a.context_id
        IN  /\ last'.exc # "AlreadyExists"
            /\ a.fault = "none" =>
                  /\ last'.kind = "return"
                  /\ last'.value.resource_name = fqn
                  /\ last'.rpcs = <<"create_context", "get_context">>
                  /\ remote'.contexts = remote.contexts \cup {fqn}
            /\ a.fault = "get_context" =>
                  /\ last'.exc = "ServiceUnavailable" /\ last'.msg = "get_context"
                  /\ remote'.contexts = remote.contexts \cup {fqn}
            /\ a.fault = "create_context" =>
                  /\ last'.exc = "ServiceUnavailable" /\ last'.msg = "create_context"
                  /\ last'.rpcs = <<"create_context">>
                  /\ remote' = remote]_vars

\* _Context.create("e1") on an API that held the context e1 has returned the
\* _Context of "projects/p1/locations/asia-east1/metadataStores/default/
\* contexts/e1" and the API holds what it held.
C19_Witness ==
    /\ last.op = "_Context.create" /\ last.kind = "return"
    /\ last.args.existed /\ last.args.context_id = e1
    /\ last.rpcs = <<"create_context", "get_context">>
    /\ last.value.resource_name =
           Path(p1, asia_east1) \o <<"/">> \o metadataStores_str \o <<"/">>
           \o default_str \o <<"/">> \o contexts_str \o <<"/">> \o e1
    /\ remote.contexts = {last.value.resource_name}

\* C20: set_experiment changes only _experiment, whether it returns or raises:
\* _run and _metrics stay what they were.  A log_metrics after it that finds
\* an experiment and a run is accepted and targets the artifact id built from
\* the _experiment and _run then held.
C20_OnlyExperiment ==
    [][/\ last'.op = "set_experiment" =>
            /\ metadata_service'._run = metadata_service._run
            /\ metadata_service'._metrics = metadata_service._metrics
            /\ last'.kind = "return" =>
                  metadata_service'._experiment = last'.args.experiment_name
       /\ ( /\ last'.op = "log_metrics"
            /\ ~last'.args.unavailable
            /\ Truthy(metadata_service._experiment)
            /\ Truthy(metadata_service._run) ) =>
            /\ last'.kind = "return"
            /\ metadata_service'._metrics =
                   metadata_service._experiment \o <<"-">> \o metadata_service._run]_vars

\* After set_experiment("e1"), set_run("r1"), log_metrics, set_experiment("e2")
\* and log_metrics again: the run is still r1, and the metrics went to
\* "e2-r1" next to the artifact "e1-r1" of the first experiment.
C20_Witness ==
    /\ last.op = "log_metrics" /\ last.kind = "return"
    /\ metadata_service._experiment = e2
    /\ metadata_service._run = r1
    /\ metadata_service._metrics = <<"e","2","-","r","1">>
    /\ {a.id : a \in remote.artifacts} =
           {<<"e","1","-","r","1">>, <<"e","2","-","r","1">>}

=============================================================================
